---- MODULE Spec2Model ----

(***************************************************************************)
(* A model of the denali noise library: the seeded permutation table       *)
(* (get_perm), the simplex kernels (simplex1d / simplex2d / simplex3d),    *)
(* the two fractal compositors (Simplex, multiplicative octaves, and the   *)
(* legacy SimplexNoise, additive octaves), the grid fills                  *)
(* (generate_noisemap2D / 3D) and the domain warp (domain_warp2d).         *)
(*                                                                         *)
(* Numbers.  An f32 is modelled as one of                                  *)
(*     <<"nan", 0>>          not a number                                  *)
(*     <<"inf", s>>          an infinity of sign s                         *)
(*     <<"big", s>>          a finite value beyond the fixed-point range   *)
(*                           (sign s, 0 when the sign is not determined)   *)
(*     <<"fin", v>>          the finite value v / Scale                    *)
(* with IEEE-754 rules for the special values and round-to-nearest         *)
(* fixed-point arithmetic for the finite ones.  An i32 is an integer in    *)
(* I32Min..I32Max; additions report overflow and wrap.  A usize is an      *)
(* integer in 0..UsizeMax of a UsizeBits-bit target.                       *)
(*                                                                         *)
(* The permutation table is scaled: it has 2 * PermHalf entries with       *)
(* values in 0..PermHalf-1 (the source has PermHalf = 256).                *)
(***************************************************************************)
EXTENDS Integers, Sequences, FiniteSets, TLC

VARIABLES
    overflow_checks,  \* build profile: TRUE = integer overflow panics (debug)
    pcg,              \* what Pcg64::new_seed(seed) + shuffle gave, per seed used so far
    gen,              \* the Simplex generator
    other,            \* a second Simplex generator, to compare gen with
    noise,            \* the legacy SimplexNoise generator
    warp,             \* the DomainWarp
    map,              \* the caller's noisemap buffer
    call,             \* the last call made: <<operation, arguments>>
    ret,              \* what that call returned: [v |-> value, panicked |-> BOOLEAN]
    evals             \* the kernel evaluations that call made, in order

vars == <<overflow_checks, pcg, gen, other, noise, warp, map, call, ret, evals>>

(***************************************************************************)
(* Bounds of the model.                                                    *)
(***************************************************************************)
PermHalf == 2        \* half the table length (256 in the source)
MaxSeed == 1         \* seeds are 0..MaxSeed
MaxOctaves == 2      \* octave counts are 0..MaxOctaves
MaxMapLen == 4       \* noisemap buffers have 0..MaxMapLen cells

Scale == 10 * 10 * 10
PermLen == 2 * PermHalf
Seeds == 0..MaxSeed

(***************************************************************************)
(* i32 and usize                                                           *)
(***************************************************************************)
I32Max == 2147483647
I32Min == (-I32Max) - 1
UsizeBits == 16
UsizeMax == (2 ^ UsizeBits) - 1

Abs(n) == IF n < 0 THEN -n ELSE n
Sgn(n) == IF n < 0 THEN -1 ELSE IF n > 0 THEN 1 ELSE 0

\* Rust evaluates a `let` where it stands: Strict(v, rest) is rest, with the
\* locals v evaluated first
Strict(v, rest) == CASE v = v -> rest

\* a + b on i32: the wrapped sum and whether it overflowed
AddI32(a, b) ==
    IF b >= 0 /\ a > I32Max - b
    THEN [v |-> (((a - I32Max) - 1) + b) - I32Max - 1, ovf |-> TRUE]
    ELSE IF b < 0 /\ a < I32Min - b
    THEN [v |-> (((a + I32Max) + 1) + b) + I32Max + 1, ovf |-> TRUE]
    ELSE [v |-> a + b, ovf |-> FALSE]

\* a * b on usize: the wrapped product and whether it overflowed
MulUsize(a, b) ==
    IF a # 0 /\ b > UsizeMax \div a
    THEN [v |-> (a * b) % (UsizeMax + 1), ovf |-> TRUE]
    ELSE [v |-> a * b, ovf |-> FALSE]

(***************************************************************************)
(* f32                                                                     *)
(***************************************************************************)
NaN == <<"nan", 0>>
Inf(s) == <<"inf", s>>
Big(s) == <<"big", s>>
FinMax == I32Max \div Scale
Fin(v) == IF Abs(v) > FinMax THEN Big(Sgn(v)) ELSE <<"fin", v>>
Lit(n) == Fin(n * Scale)          \* the literal n.0
Zero == Lit(0)
One == Lit(1)

Kind(a) == a[1]
IsNaN(a) == Kind(a) = "nan"
IsInf(a) == Kind(a) = "inf"
IsBig(a) == Kind(a) = "big"
IsFin(a) == Kind(a) = "fin"
IsFinite(a) == IsFin(a) \/ IsBig(a)
\* the sign of a value: -1, 0 or 1 (0 for zero and for an undetermined sign)
SignOf(a) == IF IsFin(a) THEN Sgn(a[2]) ELSE a[2]

\* n / d rounded to the nearest integer, for d > 0
RoundDiv(n, d) ==
    LET m == Abs(n)
        q == m \div d
        r == m % d
        u == IF r >= d - r THEN q + 1 ELSE q
    IN IF n < 0 THEN -u ELSE u

FNeg(a) == IF IsNaN(a) THEN NaN ELSE <<a[1], -a[2]>>

FAdd(a, b) ==
    IF IsNaN(a) \/ IsNaN(b) THEN NaN
    ELSE IF IsInf(a) /\ IsInf(b) THEN (IF a[2] = b[2] THEN a ELSE NaN)
    ELSE IF IsInf(a) THEN a
    ELSE IF IsInf(b) THEN b
    ELSE IF IsBig(a) /\ IsBig(b) THEN (IF a[2] = b[2] THEN a ELSE Big(0))
    ELSE IF IsBig(a) THEN a
    ELSE IF IsBig(b) THEN b
    ELSE Fin(a[2] + b[2])

FSub(a, b) == FAdd(a, FNeg(b))

FMul(a, b) ==
    IF IsNaN(a) \/ IsNaN(b) THEN NaN
    ELSE IF IsInf(a) \/ IsInf(b)
    THEN (IF a = Zero \/ b = Zero THEN NaN
          ELSE IF SignOf(a) * SignOf(b) = 0 THEN NaN   \* inf * (sign unknown)
          ELSE Inf(SignOf(a) * SignOf(b)))
    ELSE IF a = Zero \/ b = Zero THEN Zero
    ELSE IF IsBig(a) \/ IsBig(b) THEN Big(SignOf(a) * SignOf(b))
    ELSE IF Abs(b[2]) > I32Max \div Abs(a[2]) THEN Big(SignOf(a) * SignOf(b))
    ELSE Fin(RoundDiv(a[2] * b[2], Scale))

FDiv(a, b) ==
    IF IsNaN(a) \/ IsNaN(b) THEN NaN
    ELSE IF IsInf(a) /\ IsInf(b) THEN NaN
    ELSE IF IsInf(a) THEN (IF b = Zero THEN a
                           ELSE IF SignOf(b) = 0 THEN NaN
                           ELSE Inf(a[2] * SignOf(b)))
    ELSE IF IsInf(b) THEN Zero
    ELSE IF b = Zero THEN (IF a = Zero THEN NaN
                           ELSE IF SignOf(a) = 0 THEN NaN
                           ELSE Inf(SignOf(a)))
    ELSE IF a = Zero THEN Zero
    ELSE IF IsBig(b) THEN (IF IsBig(a) THEN Big(0) ELSE Zero)
    ELSE IF IsBig(a) THEN Big(SignOf(a) * SignOf(b))
    ELSE Fin(Sgn(b[2]) * RoundDiv(a[2] * Scale, Abs(b[2])))

\* a > b on f32: false when either is NaN; a comparison the model cannot
\* decide (two values beyond the fixed-point range) is taken as false
FGt(a, b) ==
    IF IsNaN(a) \/ IsNaN(b) THEN FALSE
    ELSE IF IsInf(a) THEN a[2] = 1 /\ b # a
    ELSE IF IsInf(b) THEN b[2] = -1
    ELSE IF IsBig(a) /\ IsBig(b) THEN a[2] = 1 /\ b[2] = -1
    ELSE IF IsBig(a) THEN a[2] = 1
    ELSE IF IsBig(b) THEN b[2] = -1
    ELSE a[2] > b[2]

FLt(a, b) == FGt(b, a)
FGe(a, b) == (~IsNaN(a) /\ ~IsNaN(b)) /\ (a = b \/ FGt(a, b))

FAbs(a) == IF IsNaN(a) \/ SignOf(a) >= 0 THEN a ELSE FNeg(a)

\* `x as i32`: truncation toward zero, saturating, NaN to 0 (a value beyond
\* the fixed-point range is taken to be beyond the i32 range too)
AsI32(a) ==
    IF IsNaN(a) THEN 0
    ELSE IF IsInf(a) \/ IsBig(a) THEN (IF a[2] > 0 THEN I32Max ELSE I32Min)
    ELSE IF a[2] >= 0 THEN a[2] \div Scale ELSE -((-a[2]) \div Scale)

\* `i as f32`
I32ToF(i) == IF Abs(i + (IF i < 0 THEN 1 ELSE 0)) > FinMax \div Scale
             THEN Big(Sgn(i)) ELSE Fin(i * Scale)

(***************************************************************************)
(* The permutation table (simplex/gen.rs and gen.rs hold the same code)    *)
(***************************************************************************)
\* The reference table: a fixed permutation of 0..PermHalf-1, written twice.
PERMUTATION == [n \in 0..(PermLen - 1) |-> (151 * ((n % PermHalf) + 1)) % PermHalf]

Swap(t, a, b) == [t EXCEPT ![a] = t[b], ![b] = t[a]]

\* Rng::shuffle over a slice: Fisher-Yates over the WHOLE slice it is given.
\* The Pcg64 stream is not determined by the model: every draw is possible.
\* Shuffle(ts, idx) is the set of slices the loop can leave, from the slices
\* ts, with the positions idx, idx-1, .., 1 still to be swapped.
RECURSIVE Shuffle(_, _)
Shuffle(ts, idx) ==
    IF idx < 1 THEN ts
    ELSE Shuffle({Swap(t, idx, r) : t \in ts, r \in 0..idx}, idx - 1)

\* get_perm: `let mut perm = PERMUTATION; rng.shuffle(&mut perm); perm`
GetPermOutcomes == Shuffle({PERMUTATION}, PermLen - 1)

\* The tables get_perm(seed) can return, given what the generator gave before:
\* the same seed gives the same table.
get_perm(seed) == IF pcg[seed] # <<>> THEN {pcg[seed]} ELSE GetPermOutcomes
Remember(seed, table) == [pcg EXCEPT ![seed] = table]

(***************************************************************************)
(* Kernel helpers (simplex/gen.rs)                                         *)
(***************************************************************************)
Milli(n) == Fin((n * Scale) \div 1000)

\* Rust's x % m on i32 (the sign of the dividend), for m > 0
RemI32(x, m) == IF x >= 0 \/ x % m = 0 THEN x % m ELSE (x % m) - m

\* modulo without its `a + m` branch
modulo_NoFixup(x, m) == RemI32(x, m)

modulo(x, m) == IF 0 > RemI32(x, m) THEN RemI32(x, m) + m ELSE RemI32(x, m)

fast_floor(x) ==
    IF FGt(x, Zero) THEN [v |-> AsI32(x), ovf |-> FALSE]
    ELSE AddI32(AsI32(x), -1)

gradient_1d(hash, x) ==
    LET h == hash % 16
        grad == Lit(1 + (h % 8))
    IN FMul(IF (h \div 8) % 2 # 0 THEN FNeg(grad) ELSE grad, x)

gradient_2d(hash, x, y) ==
    LET h == hash % 8
        u0 == IF 4 > h THEN x ELSE y
        v == IF 4 > h THEN y ELSE x
        u == IF h % 2 # 0 THEN FMul(u0, Lit(-1)) ELSE u0
    IN FAdd(u, IF (h \div 2) % 2 # 0 THEN FMul(Lit(-2), v) ELSE FMul(Lit(2), v))

gradient_3d(hash, x, y, z) ==
    LET h == hash % 16
        u == IF h < 8 THEN x ELSE y
        v == IF h < 4 THEN y ELSE IF h = 12 \/ h = 14 THEN x ELSE z
    IN FAdd(IF h % 2 # 0 THEN FNeg(u) ELSE u,
            IF (h \div 2) % 2 # 0 THEN FNeg(v) ELSE v)

\* `t *= t; t * t * grad`
Quartic(t, grad) == FMul(FMul(FMul(t, t), FMul(t, t)), grad)

\* a corner that is added whatever its t
Corner_NoSkip(t, grad) == Quartic(t, grad)

\* One corner: `if t >= 0.0 { t *= t; n += t * t * grad }`, as the amount added
Corner(t, grad) == IF FGe(t, Zero) THEN Quartic(t, grad) ELSE Zero

F2 == Milli(366)
G2 == Milli(211)
F3 == Milli(333)
G3 == Milli(167)

(***************************************************************************)
(* The kernels.  A kernel returns a record:                                *)
(*     v      the value                                                    *)
(*     ovf    whether an integer step overflowed                           *)
(*     oob    whether a table read of a corner it took was out of bounds   *)
(*     ints   the integers of the integer steps (wrapped)                  *)
(*     cell   the cell coordinates reduced: <<ii, jj, ..>>                 *)
(*     order  the offsets of the middle corners: <<i1, j1, ..>>            *)
(*     off    for each corner, its offset vector                           *)
(*     idx    for each corner, the table indices it reads, innermost first *)
(*     t      for each corner, its falloff                                 *)
(*     n      for each corner, what it adds to the sum                     *)
(*                                                                         *)
(* Each kernel is written as a chain of steps, one per group of `let`s of  *)
(* the source; a step's parameters are the locals bound so far.            *)
(***************************************************************************)
\* `perm[n]`: the entry, and a panic (oob) when n is not an index of the table
Read(perm, n) == IF n \in DOMAIN perm THEN perm[n] ELSE 0

\* `if t >= 0.0 { .. }`
Taken(t) == FGe(t, Zero)

\* whether a corner that is taken reads the table out of bounds
OutOfBounds(perm, idx, taken) ==
    \E c \in 1..Len(idx) :
        taken[c] /\ \E m \in 1..Len(idx[c]) : idx[c][m] \notin DOMAIN perm

(***************************************************************************)
(* simplex1d (simplex/gen.rs)                                              *)
(***************************************************************************)
\* `i & 0xff` on an i32: the low bits, never negative
Mask(i) == i % PermHalf

\* t = 1.0 - x * x (1D corners are never skipped)
Falloff1(x) == FSub(One, FMul(x, x))

\* `t = 1.0 - x * x; t *= t; t * t * gradient_1d(hash, x)`
Corner1(x, hash) == Quartic(Falloff1(x), gradient_1d(hash, x))

\* n += corner 0; n += corner 1; 0.395 * n
simplex1d_n(perm, i0, i1, off, idx, n) ==
    Strict(n,
        [v |-> FMul(Milli(395), FAdd(FAdd(Zero, n[1]), n[2])),
         ovf |-> i0.ovf \/ i1.ovf,
         oob |-> OutOfBounds(perm, idx, <<TRUE, TRUE>>),
         ints |-> <<i0.v, i1.v>>,
         cell |-> <<Mask(i0.v)>>,
         order |-> <<>>,
         off |-> off,
         idx |-> idx,
         t |-> <<Falloff1(off[1][1]), Falloff1(off[2][1])>>,
         n |-> n])

simplex1d_sum(perm, i0, i1, off, idx) ==
    Strict(<<off, idx>>,
        simplex1d_n(perm, i0, i1, off, idx,
                    <<Corner1(off[1][1], Read(perm, idx[1][1])),
                      Corner1(off[2][1], Read(perm, idx[2][1]))>>))

\* x1 = x0 - 1.0; the reads are perm[i0 & 0xff] and perm[i1 & 0xff]
simplex1d_x0(perm, i0, i1, x0) ==
    Strict(<<i1, x0>>,
        simplex1d_sum(perm, i0, i1, <<<<x0>>, <<FSub(x0, One)>>>>,
                      <<<<Mask(i0.v)>>, <<Mask(i1.v)>>>>))

\* i1 = i0 + 1; x0 = x - i0 as f32
simplex1d_i0(x, perm, i0) ==
    Strict(i0,
        simplex1d_x0(perm, i0, AddI32(i0.v, 1), FSub(x, I32ToF(i0.v))))

simplex1d(x, perm) ==
    Strict(x,
        simplex1d_i0(x, perm, fast_floor(x)))

(***************************************************************************)
(* simplex2d (simplex/gen.rs)                                              *)
(***************************************************************************)
\* t = 0.5 - x*x - y*y
Falloff2(x, y) == FSub(FSub(Milli(500), FMul(x, x)), FMul(y, y))

Corner2(x, y, hash) == Corner(Falloff2(x, y), gradient_2d(hash, x, y))

\* the three corners, summed in order, times 40
simplex2d_n(perm, i, j, ij, order, cell, off, idx, t, n) ==
    Strict(<<t, n>>,
        [v |-> FMul(Lit(40), FAdd(FAdd(FAdd(Zero, n[1]), n[2]), n[3])),
         ovf |-> i.ovf \/ j.ovf \/ ij.ovf,
         oob |-> OutOfBounds(perm, idx, <<Taken(t[1]), Taken(t[2]), Taken(t[3])>>),
         ints |-> <<i.v, j.v, ij.v>>,
         cell |-> cell,
         order |-> order,
         off |-> off,
         idx |-> idx,
         t |-> t,
         n |-> n])

\* each corner: its falloff, and what it adds (its hash is the last of its reads)
simplex2d_sum(perm, i, j, ij, order, cell, off, idx) ==
    Strict(<<off, idx>>,
        simplex2d_n(perm, i, j, ij, order, cell, off, idx,
                    <<Falloff2(off[1][1], off[1][2]),
                      Falloff2(off[2][1], off[2][2]),
                      Falloff2(off[3][1], off[3][2])>>,
                    <<Corner2(off[1][1], off[1][2], Read(perm, idx[1][2])),
                      Corner2(off[2][1], off[2][2], Read(perm, idx[2][2])),
                      Corner2(off[3][1], off[3][2], Read(perm, idx[3][2]))>>))

\* x1 = x_0 - i1 + G2, .., x2 = x_0 - 1.0 + 2.0 * G2, ..; the reads are
\* perm[ii + perm[jj]], perm[ii + i1 + perm[jj + j1]], perm[ii + 1 + perm[jj + 1]]
simplex2d_ii(perm, i, j, ij, x_0, y_0, i1, j1, ii, jj) ==
    Strict(<<i1, j1, ii, jj>>,
        simplex2d_sum(perm, i, j, ij, <<i1, j1>>, <<ii, jj>>,
                      <<<<x_0, y_0>>,
                        <<FAdd(FSub(x_0, Lit(i1)), G2), FAdd(FSub(y_0, Lit(j1)), G2)>>,
                        <<FAdd(FSub(x_0, One), FMul(Lit(2), G2)),
                          FAdd(FSub(y_0, One), FMul(Lit(2), G2))>>>>,
                      <<<<jj, ii + Read(perm, jj)>>,
                        <<jj + j1, ii + i1 + Read(perm, jj + j1)>>,
                        <<jj + 1, ii + 1 + Read(perm, jj + 1)>>>>))

\* ties go to <<0, 1>> in the source; here they go to <<1, 0>>
simplex2d_x_0_TiesFirst(perm, i, j, ij, x_0, y_0) ==
    simplex2d_ii(perm, i, j, ij, x_0, y_0,
                 IF FGe(x_0, y_0) THEN 1 ELSE 0,
                 IF FGe(x_0, y_0) THEN 0 ELSE 1,
                 modulo(i.v, PermHalf), modulo(j.v, PermHalf))

\* i1, j1 by `x_0 > y_0`; ii = modulo(i, 256); jj = modulo(j, 256)
simplex2d_x_0(perm, i, j, ij, x_0, y_0) ==
    Strict(<<x_0, y_0>>,
        simplex2d_ii(perm, i, j, ij, x_0, y_0,
                     IF FGt(x_0, y_0) THEN 1 ELSE 0,
                     IF FGt(x_0, y_0) THEN 0 ELSE 1,
                     modulo(i.v, PermHalf), modulo(j.v, PermHalf)))

\* t = (i + j) as f32 * G2; x_0 = x - (i as f32 - t); y_0 = y - (j as f32 - t)
simplex2d_ij(x, y, perm, i, j, ij) ==
    Strict(ij,
        simplex2d_x_0(perm, i, j, ij,
                      FSub(x, FSub(I32ToF(i.v), FMul(I32ToF(ij.v), G2))),
                      FSub(y, FSub(I32ToF(j.v), FMul(I32ToF(ij.v), G2)))))

simplex2d_i(x, y, perm, i, j) ==
    Strict(<<i, j>>,
        simplex2d_ij(x, y, perm, i, j, AddI32(i.v, j.v)))

\* i = fast_floor(x + s); j = fast_floor(y + s)
simplex2d_s(x, y, perm, s) ==
    Strict(s,
        simplex2d_i(x, y, perm, fast_floor(FAdd(x, s)), fast_floor(FAdd(y, s))))

\* s = (x + y) * F2
simplex2d(x, y, perm) ==
    Strict(<<x, y>>,
        simplex2d_s(x, y, perm, FMul(FAdd(x, y), F2)))

(***************************************************************************)
(* simplex3d (simplex/gen.rs)                                              *)
(***************************************************************************)
\* the first test is `x0 >= y0` in the source; here it is `x0 > y0`
CornerOrder3_StrictFirst(x0, y0, z0) ==
    IF FGt(x0, y0)
    THEN (IF FGe(y0, z0) THEN <<1, 0, 0, 1, 1, 0>>
          ELSE IF FGe(x0, z0) THEN <<1, 0, 0, 1, 0, 1>>
          ELSE <<0, 0, 1, 1, 0, 1>>)
    ELSE (IF FLt(y0, z0) THEN <<0, 0, 1, 0, 1, 1>>
          ELSE IF FLt(x0, z0) THEN <<0, 1, 0, 0, 1, 1>>
          ELSE <<0, 1, 0, 1, 1, 0>>)

\* The six-way choice of the two middle corners: <<i1, j1, k1, i2, j2, k2>>
CornerOrder3(x0, y0, z0) ==
    IF FGe(x0, y0)
    THEN (IF FGe(y0, z0) THEN <<1, 0, 0, 1, 1, 0>>
          ELSE IF FGe(x0, z0) THEN <<1, 0, 0, 1, 0, 1>>
          ELSE <<0, 0, 1, 1, 0, 1>>)
    ELSE (IF FLt(y0, z0) THEN <<0, 0, 1, 0, 1, 1>>
          ELSE IF FLt(x0, z0) THEN <<0, 1, 0, 0, 1, 1>>
          ELSE <<0, 1, 0, 1, 1, 0>>)

\* t = 0.6 - x*x - y*y - z*z
Falloff3(x, y, z) ==
    FSub(FSub(FSub(Milli(600), FMul(x, x)), FMul(y, y)), FMul(z, z))

Corner3(x, y, z, hash) == Corner(Falloff3(x, y, z), gradient_3d(hash, x, y, z))

\* the four corners, summed in order, times 32
simplex3d_n(perm, ints, ovf, order, cell, off, idx, t, n) ==
    Strict(<<t, n>>,
        [v |-> FMul(Lit(32), FAdd(FAdd(FAdd(FAdd(Zero, n[1]), n[2]), n[3]), n[4])),
         ovf |-> ovf,
         oob |-> OutOfBounds(perm, idx,
                             <<Taken(t[1]), Taken(t[2]), Taken(t[3]), Taken(t[4])>>),
         ints |-> ints,
         cell |-> cell,
         order |-> order,
         off |-> off,
         idx |-> idx,
         t |-> t,
         n |-> n])

\* each corner: its falloff, and what it adds (its hash is the last of its reads)
simplex3d_sum(perm, ints, ovf, order, cell, off, idx) ==
    Strict(<<off, idx>>,
        simplex3d_n(perm, ints, ovf, order, cell, off, idx,
                    <<Falloff3(off[1][1], off[1][2], off[1][3]),
                      Falloff3(off[2][1], off[2][2], off[2][3]),
                      Falloff3(off[3][1], off[3][2], off[3][3]),
                      Falloff3(off[4][1], off[4][2], off[4][3])>>,
                    <<Corner3(off[1][1], off[1][2], off[1][3], Read(perm, idx[1][3])),
                      Corner3(off[2][1], off[2][2], off[2][3], Read(perm, idx[2][3])),
                      Corner3(off[3][1], off[3][2], off[3][3], Read(perm, idx[3][3])),
                      Corner3(off[4][1], off[4][2], off[4][3], Read(perm, idx[4][3]))>>))

\* the reads of one corner, at (ii + a, jj + b, kk + c):
\* perm[ii + a + perm[jj + b + perm[kk + c]]]
Reads3(perm, ii, jj, kk, a, b, c) ==
    <<kk + c,
      jj + b + Read(perm, kk + c),
      ii + a + Read(perm, jj + b + Read(perm, kk + c))>>

\* x1 = x0 - i1 + G3, .., x2 = x0 - i2 + 2.0 * G3, .., x3 = x0 - 1.0 + 3.0 * G3, ..
\* o = <<i1, j1, k1, i2, j2, k2>>
simplex3d_ii(perm, ints, ovf, x0, y0, z0, o, ii, jj, kk) ==
    Strict(<<o, ii, jj, kk>>,
        simplex3d_sum(perm, ints, ovf, o, <<ii, jj, kk>>,
                      <<<<x0, y0, z0>>,
                        <<FAdd(FSub(x0, Lit(o[1])), G3),
                          FAdd(FSub(y0, Lit(o[2])), G3),
                          FAdd(FSub(z0, Lit(o[3])), G3)>>,
                        <<FAdd(FSub(x0, Lit(o[4])), FMul(Lit(2), G3)),
                          FAdd(FSub(y0, Lit(o[5])), FMul(Lit(2), G3)),
                          FAdd(FSub(z0, Lit(o[6])), FMul(Lit(2), G3))>>,
                        <<FAdd(FSub(x0, One), FMul(Lit(3), G3)),
                          FAdd(FSub(y0, One), FMul(Lit(3), G3)),
                          FAdd(FSub(z0, One), FMul(Lit(3), G3))>>>>,
                      <<Reads3(perm, ii, jj, kk, 0, 0, 0),
                        Reads3(perm, ii, jj, kk, o[1], o[2], o[3]),
                        Reads3(perm, ii, jj, kk, o[4], o[5], o[6]),
                        Reads3(perm, ii, jj, kk, 1, 1, 1)>>))

\* the corner order; ii, jj, kk = modulo(i, 256), modulo(j, 256), modulo(k, 256)
simplex3d_x0(perm, i, j, k, ij, ijk, x0, y0, z0) ==
    Strict(<<x0, y0, z0>>,
        simplex3d_ii(perm, <<i.v, j.v, k.v, ij.v, ijk.v>>,
                     i.ovf \/ j.ovf \/ k.ovf \/ ij.ovf \/ ijk.ovf,
                     x0, y0, z0, CornerOrder3(x0, y0, z0),
                     modulo(i.v, PermHalf), modulo(j.v, PermHalf),
                     modulo(k.v, PermHalf)))

\* t = (i + j + k) as f32 * G3; x0 = x - (i as f32 - t); y0, z0 alike
simplex3d_ijk(x, y, z, perm, i, j, k, ij, ijk) ==
    Strict(ijk,
        simplex3d_x0(perm, i, j, k, ij, ijk,
                     FSub(x, FSub(I32ToF(i.v), FMul(I32ToF(ijk.v), G3))),
                     FSub(y, FSub(I32ToF(j.v), FMul(I32ToF(ijk.v), G3))),
                     FSub(z, FSub(I32ToF(k.v), FMul(I32ToF(ijk.v), G3)))))

\* i + j + k, left to right
simplex3d_ij(x, y, z, perm, i, j, k, ij) ==
    Strict(ij,
        simplex3d_ijk(x, y, z, perm, i, j, k, ij, AddI32(ij.v, k.v)))

simplex3d_i(x, y, z, perm, i, j, k) ==
    Strict(<<i, j, k>>,
        simplex3d_ij(x, y, z, perm, i, j, k, AddI32(i.v, j.v)))

\* i = fast_floor(x + s); j = fast_floor(y + s); k = fast_floor(z + s)
simplex3d_s(x, y, z, perm, s) ==
    Strict(s,
        simplex3d_i(x, y, z, perm, fast_floor(FAdd(x, s)), fast_floor(FAdd(y, s)),
                    fast_floor(FAdd(z, s))))

\* s = (x + y + z) * F3
simplex3d(x, y, z, perm) ==
    Strict(<<x, y, z>>,
        simplex3d_s(x, y, z, perm, FMul(FAdd(FAdd(x, y), z), F3)))

(***************************************************************************)
(* The legacy kernels (gen.rs): simplex2d, used by SimplexNoise, and the   *)
(* corner order of its 3D kernel, which nothing calls                      *)
(***************************************************************************)
gen_fast_floor(x) ==
    IF FGt(x, Zero) THEN [v |-> AsI32(x), ovf |-> FALSE]
    ELSE AddI32(AsI32(x), -1)

\* modulo, returning an i32
gen_modulo(x, m) == IF 0 > RemI32(x, m) THEN RemI32(x, m) + m ELSE RemI32(x, m)

gen_gradient(hash, x, y) ==
    LET h == hash % 8
        u0 == IF 4 > h THEN x ELSE y
        v == IF 4 > h THEN y ELSE x
        u == IF h % 2 # 0 THEN FMul(u0, Lit(-1)) ELSE u0
    IN FAdd(u, IF (h \div 2) % 2 # 0 THEN FMul(Lit(-2), v) ELSE FMul(Lit(2), v))

\* `if t < 0.0 { .. } else { .. }`: the else branch reads the table
TakenLegacy(t) == ~FLt(t, Zero)

\* `if t < 0.0 { 0.0 } else { t *= t; t * t * grad }`
CornerLegacy(t, grad) ==
    IF FLt(t, Zero) THEN Zero ELSE Quartic(t, grad)

gen_Corner2(x, y, hash) == CornerLegacy(Falloff2(x, y), gen_gradient(hash, x, y))

\* 40.0 * (n0 + n1 + n2)
gen_simplex2d_n(perm, i, j, ij, order, cell, off, idx, t, n) ==
    Strict(<<t, n>>,
        [v |-> FMul(Lit(40), FAdd(FAdd(n[1], n[2]), n[3])),
         ovf |-> i.ovf \/ j.ovf \/ ij.ovf,
         oob |-> OutOfBounds(perm, idx,
                             <<TakenLegacy(t[1]), TakenLegacy(t[2]), TakenLegacy(t[3])>>),
         ints |-> <<i.v, j.v, ij.v>>,
         cell |-> cell,
         order |-> order,
         off |-> off,
         idx |-> idx,
         t |-> t,
         n |-> n])

gen_simplex2d_sum(perm, i, j, ij, order, cell, off, idx) ==
    Strict(<<off, idx>>,
        gen_simplex2d_n(perm, i, j, ij, order, cell, off, idx,
                        <<Falloff2(off[1][1], off[1][2]),
                          Falloff2(off[2][1], off[2][2]),
                          Falloff2(off[3][1], off[3][2])>>,
                        <<gen_Corner2(off[1][1], off[1][2], Read(perm, idx[1][2])),
                          gen_Corner2(off[2][1], off[2][2], Read(perm, idx[2][2])),
                          gen_Corner2(off[3][1], off[3][2], Read(perm, idx[3][2]))>>))

\* the reads are perm[jj], perm[ii + temp], perm[jj + j1], perm[ii + i1 + temp],
\* perm[jj + 1], perm[ii + 1 + temp]
gen_simplex2d_ii(perm, i, j, ij, x_0, y_0, i1, j1, ii, jj) ==
    Strict(<<i1, j1, ii, jj>>,
        gen_simplex2d_sum(perm, i, j, ij, <<i1, j1>>, <<ii, jj>>,
                          <<<<x_0, y_0>>,
                            <<FAdd(FSub(x_0, Lit(i1)), G2), FAdd(FSub(y_0, Lit(j1)), G2)>>,
                            <<FAdd(FSub(x_0, One), FMul(Lit(2), G2)),
                              FAdd(FSub(y_0, One), FMul(Lit(2), G2))>>>>,
                          <<<<jj, ii + Read(perm, jj)>>,
                            <<jj + j1, ii + i1 + Read(perm, jj + j1)>>,
                            <<jj + 1, ii + 1 + Read(perm, jj + 1)>>>>))

gen_simplex2d_x_0(perm, i, j, ij, x_0, y_0) ==
    Strict(<<x_0, y_0>>,
        gen_simplex2d_ii(perm, i, j, ij, x_0, y_0,
                         IF FGt(x_0, y_0) THEN 1 ELSE 0,
                         IF FGt(x_0, y_0) THEN 0 ELSE 1,
                         gen_modulo(i.v, PermHalf), gen_modulo(j.v, PermHalf)))

gen_simplex2d_ij(x, y, perm, i, j, ij) ==
    Strict(ij,
        gen_simplex2d_x_0(perm, i, j, ij,
                          FSub(x, FSub(I32ToF(i.v), FMul(I32ToF(ij.v), G2))),
                          FSub(y, FSub(I32ToF(j.v), FMul(I32ToF(ij.v), G2)))))

gen_simplex2d_i(x, y, perm, i, j) ==
    Strict(<<i, j>>,
        gen_simplex2d_ij(x, y, perm, i, j, AddI32(i.v, j.v)))

gen_simplex2d_s(x, y, perm, s) ==
    Strict(s,
        gen_simplex2d_i(x, y, perm, gen_fast_floor(FAdd(x, s)), gen_fast_floor(FAdd(y, s))))

gen_simplex2d(x, y, perm) ==
    Strict(<<x, y>>,
        gen_simplex2d_s(x, y, perm, FMul(FAdd(x, y), F2)))

\* the corner order of gen.rs's generate3D
gen_CornerOrder3(x0, y0, z0) ==
    IF FGe(x0, y0)
    THEN (IF FGe(y0, z0) THEN <<1, 0, 0, 1, 1, 0>>
          ELSE IF FGe(x0, z0) THEN <<1, 0, 0, 1, 0, 1>>
          ELSE <<0, 0, 1, 1, 0, 1>>)
    ELSE (IF FLt(y0, z0) THEN <<0, 0, 1, 0, 1, 1>>
          ELSE IF FLt(x0, z0) THEN <<0, 1, 0, 0, 1, 1>>
          ELSE <<0, 1, 0, 1, 1, 0>>)

(***************************************************************************)
(* The fractal compositors                                                 *)
(*                                                                         *)
(* A generate call returns [v, ovf, oob, calls]: the value, whether an     *)
(* integer step of a kernel overflowed or a table read was out of bounds,  *)
(* and the kernel evaluations made, each [kernel, at, raw, freq, amp,      *)
(* trace]: the kernel called, its arguments, what it returned, the loop's  *)
(* frequencies and amplitude at that octave, and the kernel's record.      *)
(* A panic ends the loop.                                                  *)
(***************************************************************************)
\* Remap without the shift by 1.0
Remap_NoShift(output, denom, max, min) ==
    FAdd(FDiv(FMul(FDiv(output, denom), FSub(max, min)), Lit(2)), min)

\* `(((output / denom) + 1.0) * (self.max - self.min)) / 2.0 + self.min`
Remap(output, denom, max, min) ==
    FAdd(FDiv(FMul(FAdd(FDiv(output, denom), One), FSub(max, min)), Lit(2)), min)

\* Acc0 with the denominator started at 1.0
Acc0_UnitDenom(self, zfreq) ==
    [output |-> Zero, denom |-> One,
     xfreq |-> self.x_frequency, yfreq |-> self.y_frequency, zfreq |-> zfreq,
     amp |-> One, ovf |-> FALSE, oob |-> FALSE, calls |-> <<>>]

Acc0(self, zfreq) ==
    [output |-> Zero, denom |-> Zero,
     xfreq |-> self.x_frequency, yfreq |-> self.y_frequency, zfreq |-> zfreq,
     amp |-> One, ovf |-> FALSE, oob |-> FALSE, calls |-> <<>>]

\* what one octave adds to the sums
Accumulate(acc, raw, kernel, at) ==
    Strict(raw,
        [acc EXCEPT !.output = FAdd(acc.output, FMul(acc.amp, raw.v)),
                    !.denom = FAdd(acc.denom, acc.amp),
                    !.ovf = acc.ovf \/ raw.ovf,
                    !.oob = acc.oob \/ raw.oob,
                    !.calls = Append(acc.calls,
                        [kernel |-> kernel, at |-> at, raw |-> raw.v,
                         freq |-> <<acc.xfreq, acc.yfreq, acc.zfreq>>, amp |-> acc.amp,
                         trace |-> raw])])

\* StepMul with the frequencies stepped by addition
StepMul_Additive(self, acc) ==
    [acc EXCEPT !.xfreq = FAdd(acc.xfreq, self.lacunarity),
                !.yfreq = FAdd(acc.yfreq, self.lacunarity),
                !.zfreq = FAdd(acc.zfreq, self.lacunarity),
                !.amp = FMul(acc.amp, self.persistence)]

\* Simplex: `xfreq *= lacunarity; yfreq *= ..; zfreq *= ..; amp *= persistence`
StepMul(self, acc) ==
    [acc EXCEPT !.xfreq = FMul(acc.xfreq, self.lacunarity),
                !.yfreq = FMul(acc.yfreq, self.lacunarity),
                !.zfreq = FMul(acc.zfreq, self.lacunarity),
                !.amp = FMul(acc.amp, self.persistence)]

\* SimplexNoise: `xfreq += lacunarity; yfreq += lacunarity; amp *= persistence`
StepAdd(self, acc) ==
    [acc EXCEPT !.xfreq = FAdd(acc.xfreq, self.lacunarity),
                !.yfreq = FAdd(acc.yfreq, self.lacunarity),
                !.amp = FMul(acc.amp, self.persistence)]

Finish(self, acc) ==
    Strict(acc,
        [v |-> Remap(acc.output, acc.denom, self.max, self.min),
         ovf |-> acc.ovf, oob |-> acc.oob, calls |-> acc.calls])

\* a call panics on an integer overflow when the build checks them, and on
\* an out-of-bounds read in every build
Panics(r) == (r.ovf /\ overflow_checks) \/ r.oob

\* Simplex::generate2D, the loop from octave i on
RECURSIVE Octaves2D(_, _, _, _, _)
Octaves2D(self, x, y, i, acc) ==
    IF i >= self.octaves \/ Panics(acc) THEN acc
    ELSE Octaves2D(self, x, y, i + 1,
             StepMul(self, Accumulate(acc,
                 simplex2d(FMul(x, acc.xfreq), FMul(y, acc.yfreq), self.perm),
                 "simplex2d", <<FMul(x, acc.xfreq), FMul(y, acc.yfreq)>>)))

generate2D(self, x, y) ==
    Finish(self, Octaves2D(self, x, y, 0, Acc0(self, self.z_frequency)))

\* Simplex::generate3D, the loop from octave i on
RECURSIVE Octaves3D(_, _, _, _, _, _)
Octaves3D(self, x, y, z, i, acc) ==
    IF i >= self.octaves \/ Panics(acc) THEN acc
    ELSE Octaves3D(self, x, y, z, i + 1,
             StepMul(self, Accumulate(acc,
                 simplex3d(FMul(x, acc.xfreq), FMul(y, acc.yfreq),
                           FMul(z, acc.zfreq), self.perm),
                 "simplex3d",
                 <<FMul(x, acc.xfreq), FMul(y, acc.yfreq), FMul(z, acc.zfreq)>>)))

generate3D(self, x, y, z) ==
    Finish(self, Octaves3D(self, x, y, z, 0, Acc0(self, self.z_frequency)))

ridged2D(self, x, y) == [generate2D(self, x, y) EXCEPT !.v = FAbs(@)]
ridged3D(self, x, y, z) == [generate3D(self, x, y, z) EXCEPT !.v = FAbs(@)]

\* SimplexNoise::generate2D (lib.rs), the loop from octave i on
RECURSIVE NoiseOctaves2D(_, _, _, _, _)
NoiseOctaves2D(self, x, y, i, acc) ==
    IF i >= self.octaves \/ Panics(acc) THEN acc
    ELSE NoiseOctaves2D(self, x, y, i + 1,
             StepAdd(self, Accumulate(acc,
                 gen_simplex2d(FMul(x, acc.xfreq), FMul(y, acc.yfreq), self.perm),
                 "simplex2d", <<FMul(x, acc.xfreq), FMul(y, acc.yfreq)>>)))

SimplexNoise_generate2D(self, x, y) ==
    Finish(self, NoiseOctaves2D(self, x, y, 0, Acc0(self, Zero)))

\* SimplexNoise::generate3D (lib.rs): the same loop as generate2D; z is not read
SimplexNoise_generate3D(self, x, y, z) ==
    Finish(self, NoiseOctaves2D(self, x, y, 0, Acc0(self, Zero)))

(***************************************************************************)
(* Constructors and setters                                                *)
(***************************************************************************)
Simplex_new(octaves, x_frequency, y_frequency, z_frequency, lacunarity, persistence, max, min, seed, table) ==
    [octaves |-> octaves, x_frequency |-> x_frequency, y_frequency |-> y_frequency,
     z_frequency |-> z_frequency, lacunarity |-> lacunarity,
     persistence |-> persistence, max |-> max, min |-> min,
     perm |-> table, seed |-> seed]

SimplexNoise_new(octaves, x_frequency, y_frequency, lacunarity, persistence, max, min, table) ==
    [octaves |-> octaves, x_frequency |-> x_frequency, y_frequency |-> y_frequency,
     lacunarity |-> lacunarity, persistence |-> persistence,
     max |-> max, min |-> min, perm |-> table]

\* set_range with the two bounds exchanged
set_range_Swapped(self, max, min) == [self EXCEPT !.max = min, !.min = max]

set_range(self, max, min) == [self EXCEPT !.max = max, !.min = min]

\* change_seed that keeps the table it had
change_seed_SeedOnly(self, seed, table) == [self EXCEPT !.seed = seed]

\* `self.seed = seed; self.perm = get_perm(seed)`; table is what get_perm gave
change_seed(self, seed, table) == [self EXCEPT !.seed = seed, !.perm = table]

\* PartialEq for Simplex: `self.seed == other.seed`
Simplex_eq(self, rhs) == self.seed = rhs.seed

DomainWarp_new(simplex1, simplex2, simplex3, warp_values, weight) ==
    [simplex1 |-> simplex1, simplex2 |-> simplex2, simplex3 |-> simplex3,
     warps |-> warp_values, weight |-> weight]

(***************************************************************************)
(* domain_warp2d (warp/gen.rs); warps is indexed from 0 as in the source   *)
(***************************************************************************)
\* A step reads what the calls before it returned: a call that panicked
\* ends domain_warp2d there, with that call's record.

\* the value of the last call
domain_warp2d_out(qx, qy, rx, ry, out) ==
    [v |-> out.v, ovf |-> qx.ovf \/ qy.ovf \/ rx.ovf \/ ry.ovf \/ out.ovf,
     oob |-> qx.oob \/ qy.oob \/ rx.oob \/ ry.oob \/ out.oob]

\* the last call without the weight: G3(x + rx, y + ry)
domain_warp2d_r_unweighted(w, x, y, qx, qy, rx, ry) ==
    IF Panics(rx) THEN rx
    ELSE IF Panics(ry) THEN ry
    ELSE domain_warp2d_out(qx, qy, rx, ry,
             generate2D(w.simplex3, FAdd(x, rx.v), FAdd(y, ry.v)))

\* warp.simplex3.generate2D(x + weight * rx, y + weight * ry)
domain_warp2d_r(w, x, y, qx, qy, rx, ry) ==
    IF Panics(rx) THEN rx
    ELSE IF Panics(ry) THEN ry
    ELSE domain_warp2d_out(qx, qy, rx, ry,
             generate2D(w.simplex3, FAdd(x, FMul(w.weight, rx.v)),
                                    FAdd(y, FMul(w.weight, ry.v))))

\* ry with warps[5] for its second coordinate
domain_warp2d_q_sixth(w, x, y, qx, qy) ==
    IF Panics(qx) THEN qx
    ELSE IF Panics(qy) THEN qy
    ELSE domain_warp2d_r(w, x, y, qx, qy,
             generate2D(w.simplex2,
                        FAdd(FAdd(x, FMul(w.weight, qx.v)), w.warps[2]),
                        FAdd(FAdd(y, FMul(w.weight, qy.v)), w.warps[3])),
             generate2D(w.simplex2,
                        FAdd(FAdd(x, FMul(w.weight, qx.v)), w.warps[4]),
                        FAdd(FAdd(y, FMul(w.weight, qy.v)), w.warps[5])))

\* rx and ry, from simplex2
domain_warp2d_q(w, x, y, qx, qy) ==
    IF Panics(qx) THEN qx
    ELSE IF Panics(qy) THEN qy
    ELSE domain_warp2d_r(w, x, y, qx, qy,
             generate2D(w.simplex2,
                        FAdd(FAdd(x, FMul(w.weight, qx.v)), w.warps[2]),
                        FAdd(FAdd(y, FMul(w.weight, qy.v)), w.warps[3])),
             generate2D(w.simplex2,
                        FAdd(FAdd(x, FMul(w.weight, qx.v)), w.warps[4]),
                        FAdd(FAdd(y, FMul(w.weight, qy.v)), w.warps[4])))

\* qx and qy, from simplex1
domain_warp2d(w, x, y) ==
    domain_warp2d_q(w, x, y,
        generate2D(w.simplex1, x, y),
        generate2D(w.simplex1, FAdd(y, w.warps[0]), FAdd(x, w.warps[1])))

DomainWarp_generate2D(self, x, y) == domain_warp2d(self, x, y)

(***************************************************************************)
(* The grid fills (simplex/mod.rs).  A fill returns [map, panic]: the      *)
(* buffer as the call leaves it and why it panicked ("none" if it did      *)
(* not).  Buffers are indexed from 0 as in the source.                     *)
(***************************************************************************)
MapLen(m) == Cardinality(DOMAIN m)

\* `n as f32` for a usize n
UsizeToF(n) == I32ToF(n)

\* a + b on usize: the wrapped sum and whether it overflowed
AddUsize(a, b) ==
    IF a > UsizeMax - b
    THEN [v |-> (a - (UsizeMax - b)) - 1, ovf |-> TRUE]
    ELSE [v |-> a + b, ovf |-> FALSE]

\* a + b, where a and b are [v, ovf] themselves
SumUsize(a, b) ==
    [v |-> AddUsize(a.v, b.v).v, ovf |-> a.ovf \/ b.ovf \/ AddUsize(a.v, b.v).ovf]

Exact(n) == [v |-> n, ovf |-> FALSE]

\* Index2D with the axes exchanged
Index2D_Transposed(x, y, map_width) == SumUsize(Exact(y), MulUsize(map_width, x))

\* `x + map_width * y`
Index2D(x, y, map_width) == SumUsize(Exact(x), MulUsize(map_width, y))

\* `x + map_width * y + map_width * map_height * z`, wh the product as computed
Index3D(x, y, z, map_width, wh) ==
    SumUsize(SumUsize(Exact(x), MulUsize(map_width, y)), MulUsize(wh, z))

\* the buffer before the first store
Untouched(m) == [map |-> m, panic |-> "none"]

\* `map[idx] = g`: the value, then the index arithmetic, then the bounds check
Store(st, idx, g) ==
    IF g.oob THEN [st EXCEPT !.panic = "index"]
    ELSE IF Panics(g) \/ (idx.ovf /\ overflow_checks) THEN [st EXCEPT !.panic = "overflow"]
    ELSE IF idx.v \notin DOMAIN st.map THEN [st EXCEPT !.panic = "index"]
    ELSE [st EXCEPT !.map[idx.v] = g.v]

\* the loops of generate_noisemap2D from (x, y) on; height is map.len() / map_width
RECURSIVE Fill2D(_, _, _, _, _, _, _, _)
Fill2D(self, x_start, y_start, st, map_width, height, x, y) ==
    IF st.panic # "none" \/ x >= map_width THEN st
    ELSE IF y >= height
    THEN Fill2D(self, x_start, y_start, st, map_width, height, x + 1, 0)
    ELSE Fill2D(self, x_start, y_start,
                Store(st, Index2D(x, y, map_width),
                      generate2D(self, FAdd(x_start, UsizeToF(x)),
                                 FAdd(y_start, UsizeToF(y)))),
                map_width, height, x, y + 1)

\* The inner bound map.len() / map_width is first evaluated inside the outer
\* loop, so never with map_width = 0; it is the same at every iteration, and
\* with a bound of 0 no iteration does anything.
generate_noisemap2D(self, x_start, y_start, m, map_width) ==
    IF map_width = 0 THEN Untouched(m)
    ELSE IF MapLen(m) \div map_width = 0 THEN Untouched(m)
    ELSE Fill2D(self, x_start, y_start, Untouched(m), map_width,
                MapLen(m) \div map_width, 0, 0)

\* the loops of generate_noisemap3D from (x, y, z) on; wh is map_width * map_height
\* as computed, depth is map.len() / wh
RECURSIVE Fill3D(_, _, _, _, _, _, _, _, _, _, _, _)
Fill3D(self, x_start, y_start, z_start, st, map_width, map_height, wh, depth, x, y, z) ==
    IF st.panic # "none" \/ x >= map_width THEN st
    ELSE IF y >= map_height
    THEN Fill3D(self, x_start, y_start, z_start, st, map_width, map_height,
                wh, depth, x + 1, 0, 0)
    ELSE IF z >= depth
    THEN Fill3D(self, x_start, y_start, z_start, st, map_width, map_height,
                wh, depth, x, y + 1, 0)
    ELSE Fill3D(self, x_start, y_start, z_start,
                Store(st, Index3D(x, y, z, map_width, wh),
                      generate3D(self, FAdd(x_start, UsizeToF(x)),
                                 FAdd(y_start, UsizeToF(y)),
                                 FAdd(z_start, UsizeToF(z)))),
                map_width, map_height, wh, depth, x, y, z + 1)

\* The inner bound map.len() / (map_width * map_height) is first evaluated at
\* x = 0, y = 0, so only when both loops run; the product can overflow usize
\* (a panic with overflow checks, a wrapped product without) and a product
\* of 0 is a division by zero.
generate_noisemap3D(self, x_start, y_start, z_start, m, map_width, map_height) ==
    IF map_width = 0 \/ map_height = 0 THEN Untouched(m)
    ELSE IF MulUsize(map_width, map_height).ovf /\ overflow_checks
    THEN [Untouched(m) EXCEPT !.panic = "overflow"]
    ELSE IF MulUsize(map_width, map_height).v = 0
    THEN [Untouched(m) EXCEPT !.panic = "divide by zero"]
    ELSE IF MapLen(m) \div MulUsize(map_width, map_height).v = 0 THEN Untouched(m)
    ELSE Fill3D(self, x_start, y_start, z_start, Untouched(m), map_width, map_height,
                MulUsize(map_width, map_height).v,
                MapLen(m) \div MulUsize(map_width, map_height).v, 0, 0, 0)

(***************************************************************************)
(* Inputs                                                                  *)
(***************************************************************************)
NoValue == <<>>
Idle == <<"none", <<>>>>
NoTables == [s \in Seeds |-> <<>>]

\* two of the tables get_perm can return: every draw its own index (no
\* entry moves), and the first draw 0 (the last entry and the first exchanged)
SomeTables == {PERMUTATION, Swap(PERMUTATION, PermLen - 1, 0)}

\* the state after a call that returns v or panics
Returned(r) == [v |-> IF Panics(r) THEN NoValue ELSE r.v, panicked |-> Panics(r)]

(***************************************************************************)
(* SpecPerm: get_perm and its two callers, Simplex::new and change_seed    *)
(***************************************************************************)
DefaultConfig(seed, table) ==
    Simplex_new(1, One, One, One, Lit(2), Milli(500), One, Lit(-1), seed, table)

InitPerm ==
    /\ overflow_checks = FALSE
    /\ pcg = NoTables
    /\ gen = NoValue
    /\ other = NoValue
    /\ noise = NoValue
    /\ warp = NoValue
    /\ map = NoValue
    /\ call = Idle
    /\ ret = NoValue
    /\ evals = <<>>

PermNew(seed) ==
    /\ \E table \in get_perm(seed) :
          /\ pcg' = Remember(seed, table)
          /\ gen' = DefaultConfig(seed, table)
          /\ ret' = table
    /\ call' = <<"Simplex::new", <<seed>>>>
    /\ UNCHANGED <<overflow_checks, other, noise, warp, map, evals>>

PermChangeSeed(seed) ==
    /\ gen # NoValue
    /\ \E table \in get_perm(seed) :
          /\ pcg' = Remember(seed, table)
          /\ gen' = change_seed(gen, seed, table)
          /\ ret' = table
    /\ call' = <<"change_seed", <<seed>>>>
    /\ UNCHANGED <<overflow_checks, other, noise, warp, map, evals>>

NextPerm == \E seed \in Seeds : PermNew(seed) \/ PermChangeSeed(seed)

SpecPerm == InitPerm /\ [][NextPerm]_vars

\* C1: for every seed, the table get_perm(seed) returns (ret, to Simplex::new
\* or to change_seed) has 2 * PermHalf entries, the first PermHalf hold each
\* value 0..PermHalf-1 exactly once, and entry PermHalf + n equals entry n.
C1_PermutationValid ==
    call[1] \in {"Simplex::new", "change_seed"} =>
        /\ DOMAIN ret = 0..(PermLen - 1)
        /\ \A v \in 0..(PermHalf - 1) :
              Cardinality({n \in 0..(PermHalf - 1) : ret[n] = v}) = 1
        /\ \A n \in 0..(PermHalf - 1) : ret[PermHalf + n] = ret[n]

(***************************************************************************)
(* SpecFbm: the two compositors, built from the same arguments, applied to *)
(* a point.  Init draws the build, the configuration and the point.        *)
(***************************************************************************)
Octaves == 0..MaxOctaves
\* <<x_frequency, y_frequency, z_frequency>>
Frequencies == {<<Milli(500), One, Milli(250)>>}
Lacunarities == {Lit(2)}
Persistences == {Milli(500), Lit(-1)}
\* <<max, min>>
Ranges == {<<One, Lit(-1)>>, <<Lit(4), Zero>>}
\* <<x, y, z>>
Points == {<<Zero, Zero, Zero>>, <<Milli(500), Lit(-1), One>>,
           <<Lit(-1), Milli(500), Milli(-500)>>, <<One, One, Milli(500)>>}

InitFbm ==
    /\ overflow_checks = TRUE
    /\ \E table \in GetPermOutcomes : pcg = [NoTables EXCEPT ![0] = table]
    /\ \E o \in Octaves, f \in Frequencies, l \in Lacunarities,
          p \in Persistences, r \in Ranges :
          /\ gen = Simplex_new(o, f[1], f[2], f[3], l, p, r[1], r[2], 0, pcg[0])
          /\ noise = SimplexNoise_new(o, f[1], f[2], l, p, r[1], r[2], pcg[0])
    /\ other = NoValue
    /\ warp = NoValue
    /\ map = NoValue
    /\ \E pt \in Points : call = <<"none", pt>>
    /\ ret = NoValue
    /\ evals = <<>>

\* a generate call on the point drawn: r is what the model of the call gives
FbmCall(op, r) ==
    /\ call[1] = "none"
    /\ call' = <<op, call[2]>>
    /\ ret' = Returned(r)
    /\ evals' = r.calls
    /\ UNCHANGED <<overflow_checks, pcg, gen, other, noise, warp, map>>

FbmGenerate2D == FbmCall("Simplex::generate2D", generate2D(gen, call[2][1], call[2][2]))

FbmGenerate3D ==
    FbmCall("Simplex::generate3D", generate3D(gen, call[2][1], call[2][2], call[2][3]))

FbmNoiseGenerate2D ==
    FbmCall("SimplexNoise::generate2D",
            SimplexNoise_generate2D(noise, call[2][1], call[2][2]))

FbmNoiseGenerate3D ==
    FbmCall("SimplexNoise::generate3D",
            SimplexNoise_generate3D(noise, call[2][1], call[2][2], call[2][3]))

NextFbm ==
    \/ FbmGenerate2D
    \/ FbmGenerate3D
    \/ FbmNoiseGenerate2D
    \/ FbmNoiseGenerate3D

SpecFbm == InitFbm /\ [][NextFbm]_vars

(***************************************************************************)
(* Properties of the compositors (SpecFbm)                                 *)
(***************************************************************************)
\* the generator the call was made on, and how many octaves it has
Callee == IF call[1] \in {"Simplex::generate2D", "Simplex::generate3D"} THEN gen ELSE noise
Is2D == call[1] \in {"Simplex::generate2D", "SimplexNoise::generate2D"}
Is3D == call[1] \in {"Simplex::generate3D", "SimplexNoise::generate3D"}
IsSimplex == call[1] \in {"Simplex::generate2D", "Simplex::generate3D"}
IsNoise == call[1] \in {"SimplexNoise::generate2D", "SimplexNoise::generate3D"}
Generated == (Is2D \/ Is3D) /\ ~ret.panicked

\* C2: in Simplex and in SimplexNoise, a generate3D(x, y, z) that returns has
\* evaluated, for every octave k in 0..octaves, the 3D kernel at
\* (x * freqX_k, y * freqY_k, z * freqZ_k).
C2_Generate3DUsesKernel3D ==
    Is3D /\ ~ret.panicked =>
        /\ Len(evals) = Callee.octaves
        /\ \A k \in 1..Len(evals) :
              /\ evals[k].kernel = "simplex3d"
              /\ evals[k].at = <<FMul(call[2][1], evals[k].freq[1]),
                                 FMul(call[2][2], evals[k].freq[2]),
                                 FMul(call[2][3], evals[k].freq[3])>>

\* b^k, by repeated multiplication
RECURSIVE PowF(_, _)
PowF(b, k) == IF k = 0 THEN One ELSE FMul(PowF(b, k - 1), b)

\* the sum over the first n octaves of persistence^k * raw_k
RECURSIVE WeightedSum(_, _, _)
WeightedSum(es, p, n) ==
    IF n = 0 THEN Zero
    ELSE FAdd(WeightedSum(es, p, n - 1), FMul(PowF(p, n - 1), es[n].raw))

\* the sum over the first n octaves of persistence^k
RECURSIVE WeightSum(_, _)
WeightSum(p, n) ==
    IF n = 0 THEN Zero ELSE FAdd(WeightSum(p, n - 1), PowF(p, n - 1))

\* the axes a call steps: x, y and, for Simplex::generate3D, z
Axes == IF call[1] = "Simplex::generate3D" THEN 1..3 ELSE 1..2
Freq0 == <<Callee.x_frequency, Callee.y_frequency,
           IF IsSimplex THEN gen.z_frequency ELSE Zero>>

\* C3: octave k (from 0) of a Simplex call uses freq_0 * lacunarity^k on every
\* axis, octave k of a SimplexNoise call uses freq_0 + k * lacunarity; in both
\* the weight of octave k is persistence^k, the call makes `octaves`
\* evaluations, and the value returned is the remap of (the weighted sum of
\* the raw values) / (the sum of the weights).
C3_OctaveStepping ==
    Generated =>
        /\ Len(evals) = Callee.octaves
        /\ \A k \in 1..Len(evals) :
              /\ evals[k].amp = PowF(Callee.persistence, k - 1)
              /\ \A a \in Axes :
                    evals[k].freq[a] =
                        IF IsSimplex
                        THEN FMul(Freq0[a], PowF(gen.lacunarity, k - 1))
                        ELSE FAdd(Freq0[a], FMul(Lit(k - 1), noise.lacunarity))
        /\ ret.v = Remap(WeightedSum(evals, Callee.persistence, Len(evals)),
                         WeightSum(Callee.persistence, Len(evals)),
                         Callee.max, Callee.min)

\* a call of C3's case: both modes reach their last octave with a frequency
\* that differs from the first
C3_Witness ==
    /\ Generated
    /\ Len(evals) = MaxOctaves
    /\ IsNoise
    /\ evals[MaxOctaves].freq[1] # evals[1].freq[1]
    /\ evals[MaxOctaves].amp # One

\* the raw value of the kernel at the scaled point, called directly
Raw2D == simplex2d(FMul(call[2][1], gen.x_frequency),
                   FMul(call[2][2], gen.y_frequency), gen.perm).v

Raw3D == simplex3d(FMul(call[2][1], gen.x_frequency),
                   FMul(call[2][2], gen.y_frequency),
                   FMul(call[2][3], gen.z_frequency), gen.perm).v

\* (raw + 1) * (max - min) / 2 + min
LinearRemap(raw, max, min) ==
    FAdd(FDiv(FMul(FAdd(raw, One), FSub(max, min)), Lit(2)), min)

\* lo <= a <= hi
Within(a, lo, hi) == FGe(a, lo) /\ FGe(hi, a)

C5_ZeroOctaves ==
    (Is2D \/ Is3D) /\ Callee.octaves = 0 =>
        /\ ~ret.panicked
        /\ evals = <<>>
        /\ IsNaN(ret.v)
        /\ ~IsFinite(ret.v)

\* a generator constructed with octaves = 0 has answered a generate call
C5_Witness ==
    /\ call[1] = "Simplex::generate2D"
    /\ gen.octaves = 0
    /\ gen = Simplex_new(0, gen.x_frequency, gen.y_frequency, gen.z_frequency,
                         gen.lacunarity, gen.persistence, gen.max, gen.min,
                         gen.seed, gen.perm)
    /\ ret.v = NaN

\* a Simplex generate call at the origin
AtOrigin ==
    /\ call[1] \in {"Simplex::generate2D", "Simplex::generate3D"}
    /\ call[2] = <<Zero, Zero, Zero>>

\* the coordinates the kernel of the call takes: 2 or 3
Dim == IF call[1] = "Simplex::generate2D" THEN 2 ELSE 3

\* the kernel evaluation e is one at the origin: cell (-1, .., -1), the first
\* corner skipped, each corner either skipped or at a zero offset, adding 0
PinnedKernel(e) ==
    /\ \A a \in 1..Dim : e.ints[a] = -1 /\ e.cell[a] = PermHalf - 1
    /\ FLt(e.t[1], Zero)
    /\ \A c \in 1..Len(e.t) :
          /\ FLt(e.t[c], Zero) \/ \A a \in 1..Dim : e.off[c][a] = Zero
          /\ e.n[c] = Zero
    /\ e.v = Zero

ZeroWarps == [i \in 0..5 |-> Zero]
SomeWarps ==
    [i \in 0..5 |-> <<Milli(500), Milli(250), Milli(-500), One, Milli(250), Zero>>[i + 1]]

WarpValues == {ZeroWarps, SomeWarps, [SomeWarps EXCEPT ![5] = Lit(3)]}
Weights == {Zero, Milli(500), One}
\* <<x, y>>
WarpPoints == {<<Zero, Zero>>, <<Milli(500), Lit(-1)>>, <<Lit(-1), Milli(250)>>}

InitWarp ==
    /\ overflow_checks = TRUE
    /\ pcg = NoTables
    /\ gen = NoValue
    /\ other = NoValue
    /\ noise = NoValue
    /\ \E table \in SomeTables, o1 \in Octaves, o2 \in {0, 1},
          ws \in WarpValues, wt \in Weights :
          warp = DomainWarp_new(
                     Simplex_new(o1, One, One, One, Lit(2), Milli(500),
                                 One, Lit(-1), 0, table),
                     Simplex_new(o2, Milli(500), One, One, Lit(2), Milli(500),
                                 One, Lit(-1), 0, table),
                     Simplex_new(1, One, Milli(500), One, Lit(2), Milli(500),
                                 Lit(4), Zero, 0, table),
                     ws, wt)
    /\ map = NoValue
    /\ \E pt \in WarpPoints : call = <<"none", pt>>
    /\ ret = NoValue
    /\ evals = <<>>

WarpGenerate2D ==
    /\ call[1] = "none"
    /\ call' = <<"DomainWarp::generate2D", call[2]>>
    /\ ret' = Returned(DomainWarp_generate2D(warp, call[2][1], call[2][2]))
    /\ UNCHANGED <<overflow_checks, pcg, gen, other, noise, warp, map, evals>>

NextWarp == WarpGenerate2D

SpecWarp == InitWarp /\ [][NextWarp]_vars

(***************************************************************************)
(* Properties of the domain warp (SpecWarp)                                *)
(***************************************************************************)
Warped == call[1] = "DomainWarp::generate2D"

\* the five steps, each from the values of the ones before it
Step_qx == generate2D(warp.simplex1, call[2][1], call[2][2]).v
Step_qy == generate2D(warp.simplex1, FAdd(call[2][2], warp.warps[0]),
                                     FAdd(call[2][1], warp.warps[1])).v

Step_rx(qx, qy) ==
    generate2D(warp.simplex2,
               FAdd(FAdd(call[2][1], FMul(warp.weight, qx)), warp.warps[2]),
               FAdd(FAdd(call[2][2], FMul(warp.weight, qy)), warp.warps[3])).v

Step_ry(qx, qy) ==
    generate2D(warp.simplex2,
               FAdd(FAdd(call[2][1], FMul(warp.weight, qx)), warp.warps[4]),
               FAdd(FAdd(call[2][2], FMul(warp.weight, qy)), warp.warps[4])).v

Step_out(rx, ry) ==
    generate2D(warp.simplex3, FAdd(call[2][1], FMul(warp.weight, rx)),
                              FAdd(call[2][2], FMul(warp.weight, ry))).v

\* simplex3.generate2D(x, y), called directly
Direct_G3 == generate2D(warp.simplex3, call[2][1], call[2][2]).v

\* C6, as stated: with all six offsets 0 and weight 0, DomainWarp.generate2D(x, y)
\* equals simplex3.generate2D(x, y), for every (x, y) and every configuration
\* of simplex1 and simplex2, those with a non-finite output included.
C6_ZeroWeightIdentity ==
    Warped /\ ~ret.panicked /\ warp.warps = ZeroWarps /\ warp.weight = Zero =>
        ret.v = Direct_G3

\* C6, amended: the identity holds whenever the two values simplex2 returns
\* (rx and ry) are finite; simplex1 may return anything.
C6_ZeroWeightIdentityFinite ==
    Warped /\ ~ret.panicked /\ warp.warps = ZeroWarps /\ warp.weight = Zero =>
        \A qx \in {Step_qx}, qy \in {Step_qy} :
            IsFin(Step_rx(qx, qy)) /\ IsFin(Step_ry(qx, qy)) => ret.v = Direct_G3

\* a zero-weight, zero-offset warp whose simplex1 returns NaN and whose
\* simplex2 returns finite values, at a point where simplex3 is off its midrange
C6_Witness ==
    /\ Warped
    /\ ~ret.panicked
    /\ warp.warps = ZeroWarps
    /\ warp.weight = Zero
    /\ warp.simplex1.octaves = 0
    /\ IsNaN(Step_qx)
    /\ IsFin(Step_rx(NaN, NaN))
    /\ IsFin(Step_ry(NaN, NaN))
    /\ ret.v # Lit(2)

Stale(idx) == Lit(7 + idx)
Buffers == {[idx \in 0..(len - 1) |-> Stale(idx)] : len \in 0..MaxMapLen}

\* widths: none, within the buffer, beyond it, and half the usize range
Widths == (0..(MaxMapLen + 1)) \cup {2 ^ (UsizeBits - 1)}
Heights == 0..3
\* <<x_start, y_start, z_start>>
Starts == {<<Zero, Zero, Zero>>, <<Milli(500), Lit(-1), One>>}

InitMap ==
    /\ overflow_checks \in BOOLEAN
    /\ pcg = NoTables
    /\ \E table \in SomeTables :
          gen = Simplex_new(1, Milli(500), One, Milli(250), Lit(2), Milli(500),
                            One, Lit(-1), 0, table)
    /\ other = NoValue
    /\ noise = NoValue
    /\ warp = NoValue
    /\ map \in Buffers
    /\ \E st \in Starts, map_width \in Widths, map_height \in Heights :
          call = <<"none", <<st[1], st[2], st[3], map_width, map_height>>, map>>
    /\ ret = NoValue
    /\ evals = <<>>

\* a fill of the buffer: r is what the model of the call gives; call[3] keeps
\* the buffer as it was
MapCall(op, r) ==
    /\ call[1] = "none"
    /\ call' = <<op, call[2], map>>
    /\ map' = r.map
    /\ ret' = [v |-> NoValue, panicked |-> r.panic # "none", panic |-> r.panic]
    /\ UNCHANGED <<overflow_checks, pcg, gen, other, noise, warp, evals>>

MapFill2D ==
    MapCall("generate_noisemap2D",
            generate_noisemap2D(gen, call[2][1], call[2][2], map, call[2][4]))

MapFill3D ==
    MapCall("generate_noisemap3D",
            generate_noisemap3D(gen, call[2][1], call[2][2], call[2][3], map,
                                call[2][4], call[2][5]))

NextMap == MapFill2D \/ MapFill3D

SpecMap == InitMap /\ [][NextMap]_vars

(***************************************************************************)
(* Properties of the grid fills (SpecMap)                                  *)
(***************************************************************************)
Filled2D == call[1] = "generate_noisemap2D"
Filled3D == call[1] = "generate_noisemap3D"

\* n div d, and 0 when d = 0 (no cell is then in the grid)
DivOr0(n, d) == IF d = 0 THEN 0 ELSE n \div d

\* the grid of a 2D fill: its height, and of a 3D fill: its depth
GridHeight == DivOr0(MapLen(map), call[2][4])
GridDepth == DivOr0(MapLen(map), call[2][4] * call[2][5])

\* C8: after a generate_noisemap2D that returned, for every x in 0..width and
\* y in 0..(len div width), map[x + width*y] = generate2D(xStart + x,
\* yStart + y), and every cell at an index >= width * (len div width) holds
\* what it held before; after a generate_noisemap3D that returned, the same
\* with index x + width*y + width*height*z, z in 0..(len div (width*height)).
C8_GridFillEquivalence ==
    /\ Filled2D /\ ~ret.panicked =>
          /\ \A y \in 0..(GridHeight - 1) : \A x \in 0..(call[2][4] - 1) :
                map[x + call[2][4] * y] =
                    generate2D(gen, FAdd(call[2][1], I32ToF(x)),
                                    FAdd(call[2][2], I32ToF(y))).v
          /\ \A idx \in DOMAIN map :
                idx >= call[2][4] * GridHeight => map[idx] = call[3][idx]
    /\ Filled3D /\ ~ret.panicked =>
          /\ \A z \in 0..(GridDepth - 1) : \A y \in 0..(call[2][5] - 1) :
                \A x \in 0..(call[2][4] - 1) :
                    map[x + call[2][4] * y + call[2][4] * call[2][5] * z] =
                        generate3D(gen, FAdd(call[2][1], I32ToF(x)),
                                        FAdd(call[2][2], I32ToF(y)),
                                        FAdd(call[2][3], I32ToF(z))).v
          /\ \A idx \in DOMAIN map :
                idx >= call[2][4] * call[2][5] * GridDepth => map[idx] = call[3][idx]
    /\ (Filled2D \/ Filled3D) => DOMAIN map = DOMAIN call[3]

\* a 2D fill of a buffer whose length is not a multiple of the width: the
\* grid cells are written and the remainder is not
C8_Witness ==
    /\ Filled2D
    /\ ~ret.panicked
    /\ MapLen(map) = 3
    /\ call[2][4] = 2
    /\ call[2][1] # Zero
    /\ map[0] # call[3][0]
    /\ map[1] # call[3][1]
    /\ map[0] # map[1]
    /\ map[2] = call[3][2]

\* C9: for every buffer length, width and height, generate_noisemap2D / 3D
\* completes: no division by zero, no write at an index >= len(map), no
\* other panic.
C9_GridFillNeverFails ==
    Filled2D \/ Filled3D => ret.panic = "none"

(***************************************************************************)
(* SpecKernel: the three kernels applied to coordinates, non-finite ones   *)
(* included.  Init draws the build, the table and the coordinates.         *)
(***************************************************************************)
\* the tables of the kernel calls: two that get_perm can give, and the one
\* whose every entry is the largest byte
KernelTables == SomeTables \cup {[n \in 0..(PermLen - 1) |-> PermHalf - 1]}
Coordinates == {Zero, Milli(200), Milli(500), Milli(-1500), Inf(1), Inf(-1), NaN}

InitKernel ==
    /\ overflow_checks \in BOOLEAN
    /\ \E table \in KernelTables : pcg = [NoTables EXCEPT ![0] = table]
    /\ gen = NoValue
    /\ other = NoValue
    /\ noise = NoValue
    /\ warp = NoValue
    /\ map = NoValue
    /\ \E x \in Coordinates, y \in Coordinates, z \in Coordinates :
          call = <<"none", <<x, y, z>>>>
    /\ ret = NoValue
    /\ evals = <<>>

\* a kernel call on the coordinates drawn; evals keeps the kernel's record,
\* ret whether an integer step overflowed
KernelCall(op, r) ==
    /\ call[1] = "none"
    /\ call' = <<op, call[2]>>
    /\ ret' = [v |-> IF Panics(r) THEN NoValue ELSE r.v,
               panicked |-> Panics(r), overflowed |-> r.ovf]
    /\ evals' = r
    /\ UNCHANGED <<overflow_checks, pcg, gen, other, noise, warp, map>>

Kernel1d == KernelCall("simplex1d", simplex1d(call[2][1], pcg[0]))
Kernel2d == KernelCall("simplex2d", simplex2d(call[2][1], call[2][2], pcg[0]))
Kernel3d ==
    KernelCall("simplex3d", simplex3d(call[2][1], call[2][2], call[2][3], pcg[0]))

\* the 2D kernel of gen.rs, on the same coordinates and table
KernelGen2d ==
    KernelCall("gen_simplex2d", gen_simplex2d(call[2][1], call[2][2], pcg[0]))

NextKernel == Kernel1d \/ Kernel2d \/ Kernel3d \/ KernelGen2d

SpecKernel == InitKernel /\ [][NextKernel]_vars

\* C10: for every coordinate, the infinite ones that saturate to i32::MIN and
\* i32::MAX included, the integer steps of simplex1d / simplex2d / simplex3d
\* stay within the i32 range, so the call returns a value.
C10_KernelTotal ==
    call[1] \in {"simplex1d", "simplex2d", "simplex3d"} =>
        ~ret.overflowed /\ ~ret.panicked

\* the 2D kernel of the other copy, on the arguments of the call
OtherCopy2d ==
    IF call[1] = "simplex2d"
    THEN gen_simplex2d(call[2][1], call[2][2], pcg[0])
    ELSE simplex2d(call[2][1], call[2][2], pcg[0])

\* corner c of a 2D call reads table[jj + b] and then table[ii + a + table[jj + b]]
Hashed2(c, a, b) ==
    /\ evals.idx[c][1] = evals.cell[2] + b
    /\ evals.idx[c][1] \in DOMAIN pcg[0]
    /\ evals.idx[c][2] = evals.cell[1] + a + pcg[0][evals.cell[2] + b]

\* C14: in simplex2d, ii and jj are the residues of i and j in 0..255, also
\* for negative i and j; (i1, j1) is (1, 0) if x0 > y0 and (0, 1) otherwise,
\* ties included; the corner hashes are table[ii + table[jj]],
\* table[ii + i1 + table[jj + j1]] and table[ii + 1 + table[jj + 1]]; a
\* corner with t = 0.5 - dx^2 - dy^2 negative adds 0; and the copy of gen.rs
\* and the copy of simplex/gen.rs compute the same indices.
C14_CornerHashing2D ==
    (call[1] \in {"simplex2d", "gen_simplex2d"} /\ ~ret.panicked) =>
        /\ evals.cell = <<evals.ints[1] % PermHalf, evals.ints[2] % PermHalf>>
        /\ evals.order =
              (IF FGt(evals.off[1][1], evals.off[1][2]) THEN <<1, 0>> ELSE <<0, 1>>)
        /\ evals.off[1][1] = evals.off[1][2] => evals.order = <<0, 1>>
        /\ Hashed2(1, 0, 0)
        /\ Hashed2(2, evals.order[1], evals.order[2])
        /\ Hashed2(3, 1, 1)
        /\ \A c \in 1..3 :
              /\ evals.t[c] = FSub(FSub(Milli(500),
                                        FMul(evals.off[c][1], evals.off[c][1])),
                                   FMul(evals.off[c][2], evals.off[c][2]))
              /\ FLt(evals.t[c], Zero) => evals.n[c] = Zero
        /\ evals.cell = OtherCopy2d.cell
        /\ evals.order = OtherCopy2d.order
        /\ evals.idx = OtherCopy2d.idx

\* a call in a cell of negative, odd i, with x0 > y0, one corner skipped and
\* one corner adding to the sum
C14_Witness ==
    /\ call[1] = "simplex2d"
    /\ ~ret.panicked
    /\ evals.ints[1] < 0
    /\ evals.cell[1] = 1
    /\ evals.order = <<1, 0>>
    /\ \E c \in 1..3 : FLt(evals.t[c], Zero)
    /\ \E c \in 1..3 : evals.n[c] # Zero

\* C16: every table lookup of simplex1d, simplex2d and simplex3d is at an
\* index within the table (0..511 in the source), for every cell coordinate,
\* negative ones included, and every table of byte values: an innermost
\* index is at most 255 + 1, an outer one at most 255 + 1 + 255, and no
\* lookup is out of bounds.
C16_LookupsInBounds ==
    call[1] \in {"simplex1d", "simplex2d", "simplex3d"} =>
        /\ ~evals.oob
        /\ \A c \in 1..Len(evals.idx) :
              /\ evals.idx[c][1] \in 0..PermHalf
              /\ \A m \in 1..Len(evals.idx[c]) :
                    evals.idx[c][m] \in 0..(((PermHalf - 1) + 1) + (PermHalf - 1))
        /\ (((PermHalf - 1) + 1) + (PermHalf - 1)) = PermLen - 1

\* a 3D call in a cell of negative coordinates whose last corner is taken and
\* reads the table at the largest indices there are
C16_Witness ==
    /\ call[1] = "simplex3d"
    /\ \A a \in 1..3 : evals.ints[a] < 0
    /\ Taken(evals.t[4])
    /\ evals.idx[4] = <<PermHalf, PermLen - 1, PermLen - 1>>

(***************************************************************************)
(* SpecLife: two Simplex generators, of different configurations, through  *)
(* any sequence of change_seed, set_range, generate and noisemap calls.    *)
(* Init is the state after the two Simplex::new; it draws what the seeded  *)
(* generator gives for each seed, the seeds and gen's range.  call[3]      *)
(* keeps <<gen, other>> as they were before the call.  The buffer of a     *)
(* fill is the caller's, made for the call.                                *)
(***************************************************************************)
Generators == {"gen", "other"}
\* <<x, y, z>>
LifePoints == {<<Lit(-1), Milli(500), Milli(-500)>>}
\* <<x_start, y_start, z_start>>
LifeStarts == {<<Milli(500), Lit(-1), One>>}
LifeWidths == {2}
LifeBuffer == [idx \in 0..1 |-> Stale(idx)]

InitLife ==
    /\ overflow_checks = TRUE
    /\ pcg \in [Seeds -> SomeTables]
    /\ \E s1 \in Seeds, s2 \in Seeds, r \in Ranges :
          /\ gen = Simplex_new(1, Milli(500), One, Milli(250), Lit(2), Milli(500),
                               r[1], r[2], s1, CHOOSE t \in get_perm(s1) : TRUE)
          /\ other = Simplex_new(1, One, One, One, Lit(2), Lit(-1),
                                 One, Lit(-1), s2, CHOOSE t \in get_perm(s2) : TRUE)
    /\ noise = NoValue
    /\ warp = NoValue
    /\ map = NoValue
    /\ call = Idle
    /\ ret = NoValue
    /\ evals = <<>>

\* the generator a call is made on
Target(w) == IF w = "gen" THEN gen ELSE other

\* `&mut self`: the generator w becomes g, the other one is not touched
LifeUpdate(w, g) ==
    /\ gen' = IF w = "gen" THEN g ELSE gen
    /\ other' = IF w = "other" THEN g ELSE other

LifeSetRange(w, max, min) ==
    /\ LifeUpdate(w, set_range(Target(w), max, min))
    /\ call' = <<"set_range", <<w, max, min>>, <<gen, other>>>>
    /\ ret' = NoValue
    /\ evals' = <<>>
    /\ UNCHANGED <<overflow_checks, pcg, noise, warp, map>>

LifeChangeSeed(w, seed) ==
    /\ \E table \in get_perm(seed) :
          /\ pcg' = Remember(seed, table)
          /\ LifeUpdate(w, change_seed(Target(w), seed, table))
    /\ call' = <<"change_seed", <<w, seed>>, <<gen, other>>>>
    /\ ret' = NoValue
    /\ evals' = <<>>
    /\ UNCHANGED <<overflow_checks, noise, warp, map>>

\* a generate call (`&self`) on the generator w: r is what the model of the call gives
LifeGenerate(op, w, pt, r) ==
    /\ call' = <<op, <<w, pt>>, <<gen, other>>>>
    /\ ret' = Returned(r)
    /\ evals' = r.calls
    /\ UNCHANGED <<overflow_checks, pcg, gen, other, noise, warp, map>>

LifeGenerate2D(w, pt) ==
    LifeGenerate("Simplex::generate2D", w, pt, generate2D(Target(w), pt[1], pt[2]))

LifeGenerate3D(w, pt) ==
    LifeGenerate("Simplex::generate3D", w, pt, generate3D(Target(w), pt[1], pt[2], pt[3]))

\* a fill (`&self`, `map: &mut [f32]`) by the generator w, of a buffer the
\* caller makes for the call (LifeBuffer); ret.v is the buffer as the call left it
LifeFill(op, w, args, r) ==
    /\ call' = <<op, <<w, args>>, <<gen, other>>>>
    /\ ret' = [v |-> r.map, panicked |-> r.panic # "none"]
    /\ evals' = <<>>
    /\ UNCHANGED <<overflow_checks, pcg, gen, other, noise, warp, map>>

LifeNoisemap2D(w, st, map_width) ==
    LifeFill("generate_noisemap2D", w, <<st, map_width>>,
             generate_noisemap2D(Target(w), st[1], st[2], LifeBuffer, map_width))

LifeNoisemap3D(w, st, map_width, map_height) ==
    LifeFill("generate_noisemap3D", w, <<st, map_width, map_height>>,
             generate_noisemap3D(Target(w), st[1], st[2], st[3], LifeBuffer,
                                 map_width, map_height))

NextLife ==
    \E w \in Generators :
        \/ \E r \in Ranges : LifeSetRange(w, r[1], r[2])
        \/ \E seed \in Seeds : LifeChangeSeed(w, seed)
        \/ \E pt \in LifePoints : LifeGenerate2D(w, pt)
        \/ \E pt \in LifePoints : LifeGenerate3D(w, pt)
        \/ \E st \in LifeStarts, map_width \in LifeWidths : LifeNoisemap2D(w, st, map_width)
        \/ \E st \in LifeStarts, map_width \in LifeWidths : LifeNoisemap3D(w, st, map_width, 1)

SpecLife == InitLife /\ [][NextLife]_vars

(***************************************************************************)
(* Properties of the setters (SpecLife)                                    *)
(***************************************************************************)
\* the generator the last call was made on, now and before the call, and the
\* generator it was not made on, now and before the call
Self == Target(call[2][1])
SelfBefore == IF call[2][1] = "gen" THEN call[3][1] ELSE call[3][2]
Bystander == IF call[2][1] = "gen" THEN other ELSE gen
BystanderBefore == IF call[2][1] = "gen" THEN call[3][2] ELSE call[3][1]

\* the fields of a generator but max and min
Config(g) == <<g.octaves, g.x_frequency, g.y_frequency, g.z_frequency,
               g.lacunarity, g.persistence>>

\* C11: set_range(max, min) sets max and min and changes no other field
\* (seed, table, octaves, frequencies, lacunarity, persistence); called with
\* the generator's current bounds it leaves the whole generator as it was,
\* and every generate2D / generate3D gives what it gave before.
C11_SetRangeFrame ==
    call[1] = "set_range" =>
        /\ Self.max = call[2][2]
        /\ Self.min = call[2][3]
        /\ Self.seed = SelfBefore.seed
        /\ Self.perm = SelfBefore.perm
        /\ Config(Self) = Config(SelfBefore)
        /\ DOMAIN Self = DOMAIN SelfBefore
        /\ Bystander = BystanderBefore
        /\ (call[2][2] = SelfBefore.max /\ call[2][3] = SelfBefore.min) =>
              /\ Self = SelfBefore
              /\ \A pt \in LifePoints :
                    /\ generate2D(Self, pt[1], pt[2]) = generate2D(SelfBefore, pt[1], pt[2])
                    /\ generate3D(Self, pt[1], pt[2], pt[3])
                           = generate3D(SelfBefore, pt[1], pt[2], pt[3])

\* a set_range with the bounds the generator has, on a generator whose
\* two bounds differ and whose outputs depend on them
C11_Witness ==
    /\ call[1] = "set_range"
    /\ call[2][2] = SelfBefore.max
    /\ call[2][3] = SelfBefore.min
    /\ call[2][2] # call[2][3]
    /\ \E pt \in LifePoints :
          generate2D(Self, pt[1], pt[2]).v
              # generate2D(set_range(Self, Lit(9), Lit(8)), pt[1], pt[2]).v

\* C12: in every state after Simplex::new and any calls, the table of a
\* generator is get_perm(its seed); change_seed(s) sets the seed to s and the
\* table to get_perm(s) and changes no other field; a generate or noisemap
\* call changes no field; so two generators that compare equal (their seeds
\* are equal) hold the same table, whatever their configurations.
C12_TableFollowsSeed ==
    /\ gen.perm = pcg[gen.seed]
    /\ other.perm = pcg[other.seed]
    /\ call[1] = "change_seed" =>
          /\ Self.seed = call[2][2]
          /\ Self.perm = pcg[call[2][2]]
          /\ Config(Self) = Config(SelfBefore)
          /\ Self.max = SelfBefore.max
          /\ Self.min = SelfBefore.min
          /\ Bystander = BystanderBefore
    /\ call[1] \in {"Simplex::generate2D", "Simplex::generate3D",
                    "generate_noisemap2D", "generate_noisemap3D"} =>
          <<gen, other>> = call[3]
    /\ Simplex_eq(gen, other) => gen.perm = other.perm

\* a change_seed that gave gen the seed of other: the two now compare equal,
\* their configurations differ, and gen's table is not the one it had
C12_Witness ==
    /\ call[1] = "change_seed"
    /\ call[2][1] = "gen"
    /\ Simplex_eq(gen, other)
    /\ ~Simplex_eq(call[3][1], call[3][2])
    /\ gen.perm # call[3][1].perm
    /\ gen.perm = other.perm
    /\ Config(gen) # Config(other)

(***************************************************************************)
(* SpecFloor: fast_floor, in its two copies, applied to one f32.  Init     *)
(* draws the build and the argument: the quarters between -FloorRange and  *)
(* FloorRange, values beyond the i32 range, the infinities and NaN.        *)
(***************************************************************************)
FloorRange == 3
FloorInputs ==
    {Fin(k * (Scale \div 4)) : k \in (-4 * FloorRange)..(4 * FloorRange)}
        \cup {Big(1), Big(-1), Inf(1), Inf(-1), NaN}

InitFloor ==
    /\ overflow_checks \in BOOLEAN
    /\ pcg = NoTables
    /\ gen = NoValue
    /\ other = NoValue
    /\ noise = NoValue
    /\ warp = NoValue
    /\ map = NoValue
    /\ \E x \in FloorInputs : call = <<"none", x>>
    /\ ret = NoValue
    /\ evals = <<>>

\* what a call of fast_floor gives back: with overflow checks the
\* subtraction that overflows panics, without them it wraps
FloorRet(r) ==
    [v |-> IF r.ovf /\ overflow_checks THEN NoValue ELSE r.v,
     panicked |-> r.ovf /\ overflow_checks, overflowed |-> r.ovf]

FloorCall(op, r) ==
    /\ call[1] = "none"
    /\ call' = <<op, call[2]>>
    /\ ret' = FloorRet(r)
    /\ UNCHANGED <<overflow_checks, pcg, gen, other, noise, warp, map, evals>>

FastFloor == FloorCall("fast_floor", fast_floor(call[2]))
GenFastFloor == FloorCall("gen_fast_floor", gen_fast_floor(call[2]))

NextFloor == FastFloor \/ GenFastFloor

SpecFloor == InitFloor /\ [][NextFloor]_vars

\* truncation toward zero and the mathematical floor of a fixed-point value
TruncOf(x) == IF x[2] >= 0 THEN x[2] \div Scale ELSE -((-x[2]) \div Scale)
FloorOf(x) == x[2] \div Scale
IsWhole(x) == x[2] % Scale = 0

\* C13: fast_floor(x) returns trunc(x) for x > 0 and trunc(x) - 1 for
\* x <= 0, for every x: it is floor(x) for x > 0 and for a non-integer
\* x < 0, and floor(x) - 1 exactly when x is zero or a negative integer;
\* the copy in gen.rs and the copy in simplex/gen.rs give the same result.
C13_FastFloor ==
    call[1] \in {"fast_floor", "gen_fast_floor"} =>
        /\ ret = FloorRet(IF call[1] = "fast_floor"
                          THEN gen_fast_floor(call[2]) ELSE fast_floor(call[2]))
        /\ ~IsNaN(call[2]) => ~ret.overflowed
        /\ IsFin(call[2]) =>
              /\ ret.v = (IF call[2][2] > 0 THEN TruncOf(call[2])
                          ELSE TruncOf(call[2]) - 1)
              /\ (call[2][2] > 0 \/ ~IsWhole(call[2])) => ret.v = FloorOf(call[2])
              /\ (ret.v = FloorOf(call[2]) - 1) <=>
                     (call[2][2] <= 0 /\ IsWhole(call[2]))

\* the part of C13 that holds: within the i32 range
C13_FastFloorInRange ==
    call[1] \in {"fast_floor", "gen_fast_floor"} =>
        /\ ret = FloorRet(IF call[1] = "fast_floor"
                          THEN gen_fast_floor(call[2]) ELSE fast_floor(call[2]))
        /\ IsFin(call[2]) =>
              /\ ~ret.overflowed
              /\ ret.v = (IF call[2][2] > 0 THEN TruncOf(call[2])
                          ELSE TruncOf(call[2]) - 1)
              /\ (call[2][2] > 0 \/ ~IsWhole(call[2])) => ret.v = FloorOf(call[2])
              /\ (ret.v = FloorOf(call[2]) - 1) <=>
                     (call[2][2] <= 0 /\ IsWhole(call[2]))

(***************************************************************************)
(* SpecOrder: the six-way corner order of the 3D kernels, in its two       *)
(* copies, applied to one offset vector.  Init draws the offsets, ties and *)
(* NaN included.                                                           *)
(***************************************************************************)
OrderOffsets == {Milli(-500), Zero, Milli(250), Milli(500), NaN}

InitOrder ==
    /\ overflow_checks = TRUE
    /\ pcg = NoTables
    /\ gen = NoValue
    /\ other = NoValue
    /\ noise = NoValue
    /\ warp = NoValue
    /\ map = NoValue
    /\ \E x0 \in OrderOffsets, y0 \in OrderOffsets, z0 \in OrderOffsets :
          call = <<"none", <<x0, y0, z0>>>>
    /\ ret = NoValue
    /\ evals = <<>>

\* ret is <<i1, j1, k1, i2, j2, k2>>
OrderCall(op, o) ==
    /\ call[1] = "none"
    /\ call' = <<op, call[2]>>
    /\ ret' = o
    /\ UNCHANGED <<overflow_checks, pcg, gen, other, noise, warp, map, evals>>

Order3d == OrderCall("simplex3d", CornerOrder3(call[2][1], call[2][2], call[2][3]))
GenOrder3d ==
    OrderCall("generate3D", gen_CornerOrder3(call[2][1], call[2][2], call[2][3]))

NextOrder == Order3d \/ GenOrder3d

SpecOrder == InitOrder /\ [][NextOrder]_vars

Ordered == call[1] \in {"simplex3d", "generate3D"}
\* an axis of p no other axis is greater than, or less than
Maximal(p, a) == \A b \in 1..3 : ~FGt(p[b], p[a])
Minimal(p, a) == \A b \in 1..3 : ~FLt(p[b], p[a])
\* a >= b >= c and the like
GeGe(a, b, c) == FGe(a, b) /\ FGe(b, c)
GeGt(a, b, c) == FGe(a, b) /\ FGt(b, c)
GtGe(a, b, c) == FGt(a, b) /\ FGe(b, c)
GtGt(a, b, c) == FGt(a, b) /\ FGt(b, c)

\* C15: for every (x0, y0, z0), ties included, the corner order of simplex3d
\* (and of gen.rs's generate3D) is one of the six outcomes: (i1, j1, k1) is
\* a unit vector on an axis whose offset is maximal, (i2, j2, k2) has exactly
\* two ones, dominates (i1, j1, k1) and has its zero on an axis whose offset
\* is minimal; x0>=y0>=z0 gives (1,0,0),(1,1,0); x0>=z0>y0 gives
\* (1,0,0),(1,0,1); z0>x0>=y0 gives (0,0,1),(1,0,1); z0>y0>x0 gives
\* (0,0,1),(0,1,1); y0>=z0>x0 gives (0,1,0),(0,1,1); y0>x0>=z0 gives
\* (0,1,0),(1,1,0).
C15_CornerOrder3D ==
    Ordered =>
        /\ <<ret[1], ret[2], ret[3]>> \in {<<1, 0, 0>>, <<0, 1, 0>>, <<0, 0, 1>>}
        /\ <<ret[4], ret[5], ret[6]>> \in {<<1, 1, 0>>, <<1, 0, 1>>, <<0, 1, 1>>}
        /\ \A a \in 1..3 :
              /\ ret[a] = 1 => Maximal(call[2], a)
              /\ ret[3 + a] >= ret[a]
              /\ ret[3 + a] = 0 => Minimal(call[2], a)
        /\ GeGe(call[2][1], call[2][2], call[2][3]) => ret = <<1, 0, 0, 1, 1, 0>>
        /\ GeGt(call[2][1], call[2][3], call[2][2]) => ret = <<1, 0, 0, 1, 0, 1>>
        /\ GtGe(call[2][3], call[2][1], call[2][2]) => ret = <<0, 0, 1, 1, 0, 1>>
        /\ GtGt(call[2][3], call[2][2], call[2][1]) => ret = <<0, 0, 1, 0, 1, 1>>
        /\ GeGt(call[2][2], call[2][3], call[2][1]) => ret = <<0, 1, 0, 0, 1, 1>>
        /\ GtGe(call[2][2], call[2][1], call[2][3]) => ret = <<0, 1, 0, 1, 1, 0>>

\* a tie of x0 and y0 above z0, through simplex3d's order
C15_Witness ==
    /\ call[1] = "simplex3d"
    /\ call[2][1] = call[2][2]
    /\ FGt(call[2][1], call[2][3])
    /\ ret = <<1, 0, 0, 1, 1, 0>>
====
